---- MODULE Spec2Model ----
(***************************************************************************)
(* A model of src/src/PredictedProcess.ts: one PredictedProcess instance,  *)
(* its callers, the AbortSignals they pass, the child processes it spawns  *)
(* and the promise reactions (microtasks) that runNext attaches to exec.   *)
(*                                                                         *)
(* Every public call (run, memoize), every event (abort of a signal,       *)
(* 'error' or 'close' of a child) and every promise reaction runs to       *)
(* completion as one step, as on JavaScript's single thread.  Promise      *)
(* reactions are queued in FIFO order; callers and events may act between  *)
(* two reactions (the test suite fires 'close' from caller code and keeps  *)
(* running, and AbortController.abort() is always caller code).            *)
(***************************************************************************)
EXTENDS Integers, Sequences, FiniteSets, TLC

\* ---------------------------------------------------------------- bounds
NumTokens == 2          \* distinct AbortSignal objects the callers own
MaxRuns == 3            \* run() calls made in one behaviour

None == 0               \* run() / exec() called without a signal
Tokens == 1..NumTokens
Signals == Tokens \cup {None}
ExitCodes == {0, 1}     \* a child closes with exit code 0 or with a non-zero code

\* ----------------------------------------------------------------- state
VARIABLES
    _memoize,        \* PredictedProcess._memoize
    _childProcess,   \* PredictedProcess._childProcess: 0 (null) or a child id
    queue,           \* PredictedProcess.queue: request ids, oldest first
    successfulList,  \* PredictedProcess.successfulList: signals, in push order
    aborted,         \* the signals whose .aborted is true
    requests,        \* one record per run() call, in call order
    execs,           \* one record per exec() call (per spawned child)
    microtasks       \* pending promise reactions of runNext's chains, FIFO

vars == <<_memoize, _childProcess, queue, successfulList, aborted,
          requests, execs, microtasks>>

\* The instance fields, the signals' state and the promise bookkeeping, as one
\* value that the methods below transform.
Cur == [cp |-> _childProcess, q |-> queue, sl |-> successfulList,
        rq |-> requests, ex |-> execs, mt |-> microtasks, memo |-> _memoize,
        ab |-> aborted]

Becomes(s) ==
    /\ _childProcess' = s.cp
    /\ queue' = s.q
    /\ successfulList' = s.sl
    /\ requests' = s.rq
    /\ execs' = s.ex
    /\ microtasks' = s.mt
    /\ _memoize' = s.memo
    /\ aborted' = s.ab

\* Array.prototype.includes on successfulList (identity of the signal).
Includes(list, sig) == \E i \in 1..Len(list) : list[i] = sig

TokenOf(s, r) == s.rq[r].signal

Failures == {"Aborted", "SpawnError", "NonZeroExit"}

\* --------------------------------------------------- settling a request
\* Calling a request's resolve / reject: the first call decides, later calls
\* are ignored by the promise; every call is counted.
SettleRequest(s, r, status) ==
    [s EXCEPT !.rq[r] =
        IF @.status = "pending"
        THEN [@ EXCEPT !.status = status, !.settles = @ + 1]
        ELSE [@ EXCEPT !.settles = @ + 1]]

\* ------------------------------------------------------------------ exec
\* exec(signal): spawn, store the handle, register the listeners.
\* bornAborted notes whether the signal was already aborted at the spawn.
Exec(s, sig, r, viaQueue) ==
    LET e == Len(s.ex) + 1 IN
    [s EXCEPT
        !.ex = Append(@, [signal |-> sig, req |-> r, queued |-> viaQueue,
                          listening |-> TRUE, abortListening |-> (sig # None),
                          emitted |-> FALSE,
                          event |-> "none", code |-> 0, abortedBy |-> None,
                          cleanups |-> 0, settles |-> 0,
                          outcome |-> "pending",
                          frame |-> "none",
                          bornAborted |-> (sig \in s.ab),
                          overlapped |-> \E o \in 1..Len(s.ex) :
                                            s.ex[o].queued /\ s.ex[o].listening]),
        !.cp = e]

\* A slip: the abort listener is left on the signal.
CleanupKeepsAbortListener(s, e) ==
    [s EXCEPT !.ex[e].listening = FALSE,
              !.ex[e].cleanups = @ + 1,
              !.cp = 0]

\* cleanup(): removeAllListeners, kill, clear the slot, drop the abort listener.
Cleanup(s, e) ==
    [s EXCEPT !.ex[e].listening = FALSE,
              !.ex[e].abortListening = FALSE,
              !.ex[e].cleanups = @ + 1,
              !.cp = 0]

\* A slip: a direct call that succeeds records its signal as successful.
SettleExecCaches(s, e, outcome, code) ==
    LET x == s.ex[e]
        s1 == [s EXCEPT !.ex[e].settles = @ + 1] IN
    IF x.outcome # "pending" THEN s1
    ELSE LET s2 == [s1 EXCEPT !.ex[e].outcome = outcome, !.ex[e].code = code] IN
         IF x.queued
         THEN [s2 EXCEPT !.mt = Append(@, [kind |-> "then", exec |-> e])]
         ELSE [SettleRequest(s2, x.req, outcome) EXCEPT
                  !.sl = IF outcome = "resolved" /\ x.signal # None
                         THEN Append(@, x.signal) ELSE @]

\* resolve() / reject() of exec's promise.  The first call settles it: a
\* direct call's result is that promise; a queued call's chain gets its first
\* reaction (.then) queued.
SettleExec(s, e, outcome, code) ==
    LET x == s.ex[e]
        s1 == [s EXCEPT !.ex[e].settles = @ + 1] IN
    IF x.outcome # "pending" THEN s1
    ELSE LET s2 == [s1 EXCEPT !.ex[e].outcome = outcome, !.ex[e].code = code] IN
         IF x.queued
         THEN [s2 EXCEPT !.mt = Append(@, [kind |-> "then", exec |-> e])]
         ELSE SettleRequest(s2, x.req, outcome)

\* A slip: every close resolves, whatever the exit code.
CloseOutcomeAnyCode(code) == "resolved"

\* The outcome of the 'close' listener for an exit code.
CloseOutcome(code) == IF code = 0 THEN "resolved" ELSE "NonZeroExit"

\* onAbort, run by the abort event of signal t.
OnAbort(s, e, t) ==
    SettleExec(Cleanup([s EXCEPT !.ex[e].event = "abort",
                                 !.ex[e].abortedBy = t], e),
               e, "Aborted", 0)

OnError(s, e) ==
    SettleExec(Cleanup([s EXCEPT !.ex[e].event = "error"], e), e, "SpawnError", 0)

OnClose(s, e, code) ==
    SettleExec(Cleanup([s EXCEPT !.ex[e].event = "close"], e), e,
               CloseOutcome(code), code)

\* --------------------------------------------------------------- runNext
\* A slip: Array.prototype.pop, the newest entry.
Pop(q) == [item |-> q[Len(q)], rest |-> SubSeq(q, 1, Len(q) - 1)]

\* Array.prototype.shift: the oldest entry and the rest of the queue.
Shift(q) == [item |-> Head(q), rest |-> Tail(q)]

\* A slip: the check for an ongoing execution is missing.
NeverBusy(s) == FALSE

\* Whether runNext finds an ongoing execution and returns at once.
Busy(s) == s.cp # 0

\* A slip: the head is shifted before the check for an ongoing execution.
RunNextShiftsFirst(s) ==
    IF s.q = <<>> THEN s
    ELSE LET item == Shift(s.q).item
             s1 == [s EXCEPT !.q = Shift(s.q).rest] IN
         IF Busy(s) THEN s1
         ELSE IF s.memo THEN Exec(s1, TokenOf(s, item), item, TRUE) ELSE s1

\* runNext(): return while a child holds the slot; else shift the head and,
\* on a memoized instance, execute it.
RunNext(s) ==
    IF Busy(s) THEN s
    ELSE IF s.q = <<>> THEN s
    ELSE LET item == Shift(s.q).item
             s1 == [s EXCEPT !.q = Shift(s.q).rest] IN
         IF s.memo THEN Exec(s1, TokenOf(s, item), item, TRUE) ELSE s1

\* A slip: every queue entry is taken for one of the successful signal.
SameSignalAny(s, sig) == {i \in 1..Len(s.q) : TRUE}

\* The queue entries that share the signal of a successful item: each is
\* resolved and filtered out.
SameSignal(s, sig) == {i \in 1..Len(s.q) : TokenOf(s, s.q[i]) = sig}

RECURSIVE ResolveAll(_, _)
ResolveAll(s, rs) ==
    IF rs = {} THEN s
    ELSE LET r == CHOOSE x \in rs : \A y \in rs : x <= y IN
         ResolveAll(SettleRequest(s, r, "resolved"), rs \ {r})

\* A slip: the signal is not pushed to successfulList.
ThenReactionNoPush(s, e) ==
    LET x == s.ex[e] IN
    IF x.outcome = "resolved"
    THEN LET s2 == SettleRequest(s, x.req, "resolved")
             same == SameSignal(s2, x.signal)
             s3 == ResolveAll(s2, {s2.q[i] : i \in same}) IN
         [s3 EXCEPT !.q = SelectSeq(@, LAMBDA r : TokenOf(s3, r) # x.signal)]
    ELSE s

\* .then(() => {...}) of runNext's chain.
ThenReaction(s, e) ==
    LET x == s.ex[e] IN
    IF x.outcome = "resolved"
    THEN LET s1 == [s EXCEPT !.sl = Append(@, x.signal)]
             s2 == SettleRequest(s1, x.req, "resolved")
             same == SameSignal(s2, x.signal)
             s3 == ResolveAll(s2, {s2.q[i] : i \in same}) IN
         [s3 EXCEPT !.q = SelectSeq(@, LAMBDA r : TokenOf(s3, r) # x.signal)]
    ELSE s

\* A slip: a failure empties the queue.
CatchReactionClearsQueue(s, e) ==
    LET x == s.ex[e] IN
    IF x.outcome # "resolved"
    THEN [SettleRequest(s, x.req, x.outcome) EXCEPT !.q = <<>>]
    ELSE s

\* A slip: the failure is handed to every queued entry of the same signal.
CatchReactionBroadcasts(s, e) ==
    LET x == s.ex[e] IN
    IF x.outcome # "resolved"
    THEN LET s2 == SettleRequest(s, x.req, x.outcome)
             same == {s2.q[i] : i \in SameSignal(s2, x.signal)} IN
         [s2 EXCEPT !.rq = [r \in DOMAIN @ |->
                               IF r \in same
                               THEN [@[r] EXCEPT !.status = x.outcome,
                                                 !.settles = @ + 1]
                               ELSE @[r]]]
    ELSE s

\* A slip: a failure is recorded like a success.
CatchReactionCaches(s, e) ==
    LET x == s.ex[e] IN
    IF x.outcome # "resolved"
    THEN [SettleRequest(s, x.req, x.outcome) EXCEPT !.sl = Append(@, x.signal)]
    ELSE s

\* .catch((error) => item.reject(error)) of runNext's chain.
CatchReaction(s, e) ==
    LET x == s.ex[e] IN
    IF x.outcome # "resolved" THEN SettleRequest(s, x.req, x.outcome)
    ELSE s

\* A slip: the chain ends without .finally(this.runNext).
ReactNoFinally(s, job) ==
    LET rest == [s EXCEPT !.mt = Tail(@)] IN
    IF job.kind = "then"
    THEN [ThenReaction(rest, job.exec) EXCEPT
              !.mt = Append(@, [kind |-> "catch", exec |-> job.exec])]
    ELSE IF job.kind = "catch"
    THEN [CatchReaction(rest, job.exec) EXCEPT
              !.mt = Append(@, [kind |-> "finally", exec |-> job.exec])]
    ELSE rest

\* One promise reaction of the chain exec(...).then(...).catch(...).finally(runNext).
React(s, job) ==
    LET rest == [s EXCEPT !.mt = Tail(@)] IN
    IF job.kind = "then"
    THEN [ThenReaction(rest, job.exec) EXCEPT
              !.mt = Append(@, [kind |-> "catch", exec |-> job.exec])]
    ELSE IF job.kind = "catch"
    THEN [CatchReaction(rest, job.exec) EXCEPT
              !.mt = Append(@, [kind |-> "finally", exec |-> job.exec])]
    ELSE RunNext(rest)

\* What a reaction of the chain did, noted on its child when it runs (s before,
\* s2 after).  FailureFrame: the .catch of a failed child rejected its own item
\* with the child's error and changed nothing else.  SuccessFrame: the .then of
\* a successful child resolved its own item and the queued items of the same
\* signal, took exactly those out of the queue, left every other item queued,
\* pending and in order, and spawned nothing.
FailureFrame(s, s2, e) ==
    LET x == s.ex[e] IN
    /\ s.rq[x.req].status = "pending"
    /\ s2.rq[x.req].status = x.outcome
    /\ s2.rq[x.req].settles = 1
    /\ \A r \in 1..Len(s.rq) : r # x.req => s2.rq[r] = s.rq[r]
    /\ s2.q = s.q /\ s2.sl = s.sl /\ s2.cp = s.cp /\ s2.ex = s.ex

SuccessFrame(s, s2, e) ==
    LET x == s.ex[e]
        same == {r \in 1..Len(s.rq) :
                    /\ s.rq[r].signal = x.signal
                    /\ \E i \in 1..Len(s.q) : s.q[i] = r} IN
    /\ s2.q = SelectSeq(s.q, LAMBDA r : r \notin same)
    /\ \A r \in 1..Len(s.rq) :
           IF r = x.req \/ r \in same
           THEN /\ s.rq[r].status = "pending"
                /\ s2.rq[r].status = "resolved"
                /\ s2.rq[r].settles = 1
           ELSE s2.rq[r] = s.rq[r]
    /\ s2.cp = s.cp /\ s2.ex = s.ex

Framed(s, s2, job) ==
    LET e == job.exec
        ok == IF s.ex[e].outcome = "resolved"
              THEN job.kind = "then" /\ SuccessFrame(s, s2, e)
              ELSE job.kind = "catch" /\ FailureFrame(s, s2, e) IN
    IF \/ job.kind = "then" /\ s.ex[e].outcome = "resolved"
       \/ job.kind = "catch" /\ s.ex[e].outcome # "resolved"
    THEN [s2 EXCEPT !.ex[e].frame = IF ok THEN "kept" ELSE "broken"]
    ELSE s2

\* ------------------------------------------------------------------- run
\* What a run() call found when it was made: seen is filled in by Run.
NotSeen == [cancelled |-> FALSE, hit |-> FALSE, succeeded |-> FALSE,
            failed |-> FALSE, joined |-> FALSE, free |-> FALSE,
            spawned |-> FALSE, touched |-> FALSE]

NewRequest(sig, path, status) ==
    [signal |-> sig, path |-> path, status |-> status,
     settles |-> IF status = "pending" THEN 0 ELSE 1,
     seen |-> NotSeen]

\* The three ways run() answers after its checks.
Reject(s, sig) ==
    [s EXCEPT !.rq = Append(@, NewRequest(sig, "rejected", "AlreadyCancelled"))]

Cached(s, sig) ==
    [s EXCEPT !.rq = Append(@, NewRequest(sig, "cached", "resolved"))]

Enqueue(s, sig) ==
    LET r == Len(s.rq) + 1 IN
    RunNext([s EXCEPT !.rq = Append(@, NewRequest(sig, "queued", "pending")),
                      !.q = Append(@, r)])

Direct(s, sig) ==
    LET r == Len(s.rq) + 1 IN
    Exec([s EXCEPT !.rq = Append(@, NewRequest(sig, "direct", "pending"))],
         sig, r, FALSE)

\* A slip: the memoized shortcut tested before the aborted signal.
RunCallCachedFirst(s, sig) ==
    IF sig # None /\ s.memo /\ Includes(s.sl, sig) THEN Cached(s, sig)
    ELSE IF sig # None /\ sig \in s.ab THEN Reject(s, sig)
    ELSE IF s.memo /\ sig # None THEN Enqueue(s, sig)
    ELSE Direct(s, sig)

\* The body of run(signal?).
RunCall(s, sig) ==
    IF sig # None /\ sig \in s.ab THEN Reject(s, sig)
    ELSE IF sig # None /\ s.memo /\ Includes(s.sl, sig) THEN Cached(s, sig)
    ELSE IF s.memo /\ sig # None THEN Enqueue(s, sig)
    ELSE Direct(s, sig)

\* The view of a call: s is the state it was made in, s2 the state it left.
Seen(s, s2, sig) ==
    [cancelled |-> sig \in s.ab,
     hit |-> Includes(s.sl, sig),
     succeeded |-> \E r \in 1..Len(s.rq) : /\ s.rq[r].signal = sig
                                           /\ s.rq[r].path = "queued"
                                           /\ s.rq[r].status = "resolved",
     failed |-> \E e \in 1..Len(s.ex) : /\ s.ex[e].signal = sig
                                        /\ s.ex[e].queued
                                        /\ s.ex[e].outcome \in Failures,
     joined |-> \E r \in 1..Len(s.rq) : /\ s.rq[r].signal = sig
                                        /\ s.rq[r].path = "queued"
                                        /\ s.rq[r].status = "pending",
     free |-> s.cp = 0,
     spawned |-> Len(s2.ex) > Len(s.ex),
     touched |-> \/ s2.cp # s.cp \/ s2.q # s.q \/ s2.sl # s.sl
                 \/ s2.ex # s.ex \/ s2.mt # s.mt \/ s2.memo # s.memo
                 \/ SubSeq(s2.rq, 1, Len(s.rq)) # s.rq]

\* --------------------------------------------------------------- actions
Init ==
    /\ _memoize = FALSE
    /\ _childProcess = 0
    /\ queue = <<>>
    /\ successfulList = <<>>
    /\ aborted = {}
    /\ requests = <<>>
    /\ execs = <<>>
    /\ microtasks = <<>>

\* memoize()
Memoize ==
    /\ _memoize' = TRUE
    /\ UNCHANGED <<_childProcess, queue, successfulList, aborted, requests,
                   execs, microtasks>>

\* The signals are interchangeable objects: callers bring them into play in
\* the order 1, 2, ... (by passing one to run or by aborting it).
InPlay == {requests[i].signal : i \in 1..Len(requests)} \cup aborted
Fresh(t) == t \notin InPlay => \A u \in Tokens : u < t => u \in InPlay

\* run(signal?)
Run(sig) ==
    /\ Len(requests) < MaxRuns
    /\ sig # None => Fresh(sig)
    /\ LET s2 == RunCall(Cur, sig) IN
       Becomes([s2 EXCEPT !.rq[Len(requests) + 1].seen = Seen(Cur, s2, sig)])

\* A slip: onAbort of every child that has a signal runs, whichever signal fired.
AbortListenersAnySignal(s, t) ==
    {e \in 1..Len(s.ex) : s.ex[e].abortListening}

\* The children whose onAbort is registered on signal t.
AbortListeners(s, t) ==
    {e \in 1..Len(s.ex) : s.ex[e].abortListening /\ s.ex[e].signal = t}

\* The listeners run in registration order.
RECURSIVE Dispatch(_, _, _)
Dispatch(s, es, t) ==
    IF es = {} THEN s
    ELSE LET e == CHOOSE x \in es : \A y \in es : x <= y IN
         Dispatch(OnAbort(s, e, t), es \ {e}, t)

\* The owner of signal t aborts it: .aborted becomes true and the 'abort'
\* event is dispatched to the listeners registered on it.
Abort(t) ==
    /\ t \notin aborted
    /\ Fresh(t)
    /\ Becomes(Dispatch([Cur EXCEPT !.ab = @ \cup {t}], AbortListeners(Cur, t), t))

\* Child e emits its terminal event, 'error'; the listener runs if it is
\* still registered.
ChildError(e) ==
    /\ ~execs[e].emitted
    /\ LET s == [Cur EXCEPT !.ex[e].emitted = TRUE] IN
       Becomes(IF execs[e].listening THEN OnError(s, e) ELSE s)

\* Child e emits its terminal event, 'close' with an exit code; the listener
\* runs if it is still registered.
ChildClose(e, code) ==
    /\ ~execs[e].emitted
    /\ LET s == [Cur EXCEPT !.ex[e].emitted = TRUE] IN
       Becomes(IF execs[e].listening THEN OnClose(s, e, code) ELSE s)

\* The oldest pending promise reaction runs.
Microtask ==
    /\ microtasks # <<>>
    /\ LET job == Head(microtasks)
           rest == [Cur EXCEPT !.mt = Tail(@)] IN
       Becomes(Framed(rest, React(Cur, job), job))

Next ==
    \/ Memoize
    \/ \E sig \in Signals : Run(sig)
    \/ \E t \in Tokens : Abort(t)
    \/ \E e \in 1..Len(execs) : ChildError(e)
    \/ \E e \in 1..Len(execs) : \E code \in ExitCodes : ChildClose(e, code)
    \/ Microtask

Spec == Init /\ [][Next]_vars

\* The instance is memoized before its first run() and every run() carries a
\* signal: all requests take the queue.
NextQueued ==
    \/ requests = <<>> /\ Memoize
    \/ \E t \in Tokens : _memoize /\ Run(t)
    \/ \E t \in Tokens : Abort(t)
    \/ \E e \in 1..Len(execs) : ChildError(e)
    \/ \E e \in 1..Len(execs) : \E code \in ExitCodes : ChildClose(e, code)
    \/ Microtask

SpecQueued == Init /\ [][NextQueued]_vars

\* A child in flight emits its terminal event, 'error' or 'close'.
ChildEnds(e) ==
    /\ e \in 1..Len(execs)
    /\ execs[e].listening
    /\ \/ ChildError(e)
       \/ \E code \in ExitCodes : ChildClose(e, code)

\* SpecQueued with its scheduling: the promise reactions that are queued are
\* run, and a child that stays in flight (is not ended by an abort of its
\* signal) ends by itself.
SpecQueuedFair ==
    /\ SpecQueued
    /\ WF_vars(Microtask)
    /\ \A e \in 1..MaxRuns : WF_vars(ChildEnds(e))

\* The instance is memoized before its first run(); run() is called with and
\* without a signal.
NextMemoized ==
    \/ requests = <<>> /\ Memoize
    \/ \E sig \in Signals : _memoize /\ Run(sig)
    \/ \E t \in Tokens : Abort(t)
    \/ \E e \in 1..Len(execs) : ChildError(e)
    \/ \E e \in 1..Len(execs) : \E code \in ExitCodes : ChildClose(e, code)
    \/ Microtask

SpecMemoized == Init /\ [][NextMemoized]_vars

\* ------------------------------------------------------ shared vocabulary
Reqs == 1..Len(requests)
Execs == 1..Len(execs)

\* ---------------------------------------------------------------- claims
\* C1: run(token) with a token that is already cancelled fails at once with
\* AlreadyCancelled, spawns nothing and leaves the child slot, the queue and
\* the successful list as they were, in every state of the instance; the
\* cancelled check comes before the memoized shortcut.
C1_CancelledRunRejected ==
    \A r \in Reqs :
        requests[r].seen.cancelled
            => /\ requests[r].status = "AlreadyCancelled"
               /\ ~requests[r].seen.spawned
               /\ ~requests[r].seen.touched

\* A run with a cancelled token that was in the successful list of a memoized
\* instance, rejected all the same.
C1_Witness ==
    \E r \in Reqs :
        /\ requests[r].seen.cancelled
        /\ requests[r].seen.hit
        /\ _memoize
        /\ requests[r].status = "AlreadyCancelled"

QueuedReqs(t) == {r \in Reqs : requests[r].signal = t /\ requests[r].path = "queued"}
QueuedExecs(t) == {e \in Execs : execs[e].queued /\ execs[e].signal = t}

\* The child spawned for request r, if any.
ExecsOf(r) == {e \in Execs : execs[e].req = r}

\* C3: on a memoized instance, when run(T) is called two or more times before
\* any of the calls settles and no execution for T fails, the command is
\* spawned exactly once for T and, once a call is resolved, all of them are.
C3_OneSpawnAllResolved ==
    \A t \in Tokens :
        (/\ Cardinality(QueuedReqs(t)) >= 2
         /\ \A e \in QueuedExecs(t) : execs[e].outcome \notin Failures
         /\ \E r \in QueuedReqs(t) : requests[r].status = "resolved")
            => /\ Cardinality(QueuedExecs(t)) = 1
               /\ \A r \in QueuedReqs(t) : requests[r].status = "resolved"

\* C4 (as stated): after a queue-drained execution failed for T (by error,
\* non-zero exit or abort) and T is not in the successful list, a later run(T)
\* is queued for execution again.
C4_FailedRunQueuedAgain ==
    \A r \in Reqs :
        (requests[r].seen.failed /\ ~requests[r].seen.hit)
            => requests[r].path = "queued"

\* C4 (amended): a failure is never cached: every signal in the successful
\* list has a queue-drained execution that succeeded; and a run(T) made after
\* a queue-drained execution failed for T, with T neither cancelled nor in the
\* successful list, is queued and a child is spawned at once when the slot is
\* free.
C4_FailureNotCached ==
    /\ \A i \in 1..Len(successfulList) :
           \E e \in QueuedExecs(successfulList[i]) : execs[e].outcome = "resolved"
    /\ \A r \in Reqs :
           (/\ requests[r].seen.failed
            /\ ~requests[r].seen.hit
            /\ ~requests[r].seen.cancelled)
               => /\ requests[r].path = "queued"
                  /\ requests[r].seen.free => requests[r].seen.spawned

\* A run(T) after a failed execution for T that spawned the command again.
C4_Witness ==
    \E r \in Reqs :
        /\ requests[r].seen.failed
        /\ ~requests[r].seen.hit
        /\ ~requests[r].seen.cancelled
        /\ requests[r].seen.spawned
        /\ ExecsOf(r) # {}
        /\ successfulList = <<>>

\* C5: on a memoized instance whose run calls all carry a token, at most one
\* child is in flight (spawned and not yet cleaned up) at any time, and no
\* child is spawned while an earlier one is still in flight.
C5_OneInFlight ==
    /\ \A e1, e2 \in Execs :
           (execs[e1].listening /\ execs[e2].listening) => e1 = e2
    /\ \A e \in Execs : ~execs[e].overlapped
    /\ \A e \in Execs : execs[e].listening => _childProcess = e

\* Two queued requests with distinct tokens were executed one after the other.
C5_Witness ==
    \E e1, e2 \in Execs :
        /\ e1 < e2
        /\ execs[e1].signal # execs[e2].signal
        /\ execs[e1].cleanups = 1
        /\ execs[e2].listening

\* C6: for every execution, the first of abort, 'error' and 'close' decides:
\* cleanup has run exactly once and the promise is settled exactly once with
\* that event's outcome, later events change nothing, and the child slot never
\* holds an execution that has ended.
C6_FirstEventDecides ==
    /\ \A e \in Execs :
           LET x == execs[e] IN
           /\ x.cleanups <= 1 /\ x.settles <= 1
           /\ x.event = "none"
                 => (x.cleanups = 0 /\ x.settles = 0 /\ x.listening
                     /\ x.outcome = "pending")
           /\ x.event # "none"
                 => (x.cleanups = 1 /\ x.settles = 1 /\ ~x.listening
                     /\ ~x.abortListening)
           /\ x.event = "abort" => x.outcome = "Aborted"
           /\ x.event = "error" => (x.outcome = "SpawnError" /\ x.emitted)
           /\ x.event = "close" => (x.outcome = CloseOutcome(x.code) /\ x.emitted)
    /\ _childProcess # 0 => execs[_childProcess].listening

\* One execution was aborted and its child's terminal event came later;
\* another ended with its terminal event and its signal was aborted later.
C6_Witness ==
    \E e1, e2 \in Execs :
        /\ execs[e1].event = "abort" /\ execs[e1].emitted
        /\ execs[e2].event \in {"error", "close"}
        /\ execs[e2].signal \in aborted /\ ~execs[e2].bornAborted
        /\ _childProcess = 0

\* C7: queue entries are executed in arrival order: no request still in the
\* queue arrived before a request that has been spawned from the queue.
C7_Fifo ==
    \A e \in Execs :
        execs[e].queued => \A i \in 1..Len(queue) : queue[i] > execs[e].req

\* Two entries were spawned from the queue in arrival order while a third
\* waits.
C7_Witness ==
    \E e1, e2 \in Execs :
        /\ execs[e1].queued /\ execs[e2].queued
        /\ e1 < e2 /\ execs[e1].req < execs[e2].req
        /\ queue # <<>>

\* C8: a run() without token is resolved iff its child closed with exit code
\* 0, fails with NonZeroExit(code) iff it closed with another code, and fails
\* with SpawnError iff the child emitted 'error'.
C8_ExitCodeDecides ==
    \A r \in Reqs :
        (requests[r].path = "direct" /\ requests[r].signal = None)
            => /\ Cardinality(ExecsOf(r)) = 1
               /\ \A e \in ExecsOf(r) :
                    LET x == execs[e] IN
                    /\ requests[r].status = "resolved"
                          <=> (x.event = "close" /\ x.code = 0)
                    /\ requests[r].status = "NonZeroExit"
                          <=> (x.event = "close" /\ x.code # 0)
                    /\ requests[r].status = "SpawnError" <=> x.event = "error"
                    /\ requests[r].status = "pending" <=> x.event = "none"

\* On an instance that is not memoized: one run() resolved, one failed with a
\* non-zero exit and one with a spawn error.
C8_Witness ==
    /\ ~_memoize
    /\ \E r1, r2, r3 \in Reqs :
        /\ \A r \in {r1, r2, r3} :
              requests[r].path = "direct" /\ requests[r].signal = None
        /\ requests[r1].status = "resolved"
        /\ requests[r2].status = "NonZeroExit"
        /\ requests[r3].status = "SpawnError"

\* C9: the abort of T cleans up every outstanding execution started with T
\* and fails it with Aborted; an execution is aborted only by the abort of
\* its own signal.
C9_AbortHitsOwnToken ==
    \A e \in Execs :
        LET x == execs[e] IN
        /\ x.event = "abort"
              => (/\ x.abortedBy = x.signal /\ x.signal # None
                  /\ x.outcome = "Aborted" /\ x.cleanups = 1 /\ ~x.listening
                  /\ ~x.queued => requests[x.req].status = "Aborted")
        /\ (x.signal \in aborted /\ ~x.bornAborted)
              => (~x.listening /\ (x.event = "abort" \/ x.emitted))

\* T was aborted while its execution and two older ones, one without token
\* and one with another token, were outstanding: only T's execution ended.
C9_Witness ==
    \E e1, e2, e3 \in Execs :
        /\ execs[e1].event = "abort"
        /\ e2 < e1 /\ e3 < e1
        /\ execs[e2].signal = None /\ execs[e2].listening
        /\ execs[e3].signal \notin {None, execs[e1].signal}
        /\ execs[e3].listening

\* C10: requests with the identical token that are pending at the same time
\* cause at most one execution: a request that was made while an earlier
\* request with its token was pending never gets a child of its own.
C10_OneExecutionPerToken ==
    \A e \in Execs :
        execs[e].queued => ~requests[execs[e].req].seen.joined

\* C11: runNext is invoked after every enqueue and after every execution
\* settles, drain-started or direct, so the instance is never left with a
\* non-empty queue, an empty child slot and no reaction of a drain chain
\* pending.
C11_NoStrandedQueue ==
    ~(queue # <<>> /\ _childProcess = 0 /\ microtasks = <<>>)

\* C12: when a queue-drained child fails, the .catch reaction settles only the
\* item that was executed, with that failure; at that settlement every other
\* queued item, those of the same signal included, is still in the queue in
\* its place and unsettled, and nothing else of the instance has changed.
C12_FailureSettlesOwnItemOnly ==
    \A e \in Execs :
        (execs[e].queued /\ execs[e].outcome \in Failures)
            => execs[e].frame # "broken"

\* The state right after the .catch of a failed child: its item is rejected,
\* an item of the same signal and an item of another signal are still queued
\* and pending.
C12_Witness ==
    \E e \in Execs :
        /\ execs[e].queued /\ execs[e].outcome \in Failures
        /\ execs[e].frame = "kept"
        /\ microtasks # <<>> /\ Head(microtasks) = [kind |-> "finally", exec |-> e]
        /\ requests[execs[e].req].status = execs[e].outcome
        /\ \E i, j \in 1..Len(queue) :
              /\ requests[queue[i]].signal = execs[e].signal
              /\ requests[queue[j]].signal # execs[e].signal
              /\ requests[queue[i]].status = "pending"
              /\ requests[queue[j]].status = "pending"

C14_NoSpawnBeforeBroadcast ==
    \A e1, e2 \in Execs :
        (/\ e1 < e2
         /\ execs[e1].queued /\ execs[e2].queued
         /\ execs[e1].signal = execs[e2].signal
         /\ execs[e1].outcome = "resolved")
            => Includes(successfulList, execs[e1].signal)

\* C15: when a queue-drained child succeeds for a signal, the .then reaction
\* resolves exactly the queued items of that signal and takes them out of the
\* queue without executing them; the items of other signals stay queued and
\* unsettled, in the same relative order.
C15_SuccessResolvesSameSignalOnly ==
    \A e \in Execs :
        (execs[e].queued /\ execs[e].outcome = "resolved")
            => execs[e].frame # "broken"

\* The state right after the .then of a successful child: a waiting item of
\* its signal is resolved without a child, an item of another signal is still
\* queued and pending.
C15_Witness ==
    \E e \in Execs :
        /\ execs[e].queued /\ execs[e].outcome = "resolved"
        /\ execs[e].frame = "kept"
        /\ microtasks # <<>> /\ Head(microtasks) = [kind |-> "catch", exec |-> e]
        /\ \E r \in Reqs :
              /\ r # execs[e].req
              /\ requests[r].signal = execs[e].signal
              /\ requests[r].path = "queued"
              /\ requests[r].status = "resolved"
              /\ ExecsOf(r) = {}
        /\ \E i \in 1..Len(queue) :
              /\ requests[queue[i]].signal # execs[e].signal
              /\ requests[queue[i]].status = "pending"

\* C16: successfulList holds a signal only through the .then reaction of a
\* queue-drained child of that signal that succeeded: each signal occurs in
\* it as many times as such reactions have run, so a failed child and a
\* direct child add nothing; and the list never shrinks: every step keeps
\* what it held, in place.
C16_OnlyDrainedSuccessCaches ==
    /\ [](\A t \in Signals :
             Cardinality({i \in 1..Len(successfulList) : successfulList[i] = t})
                 = Cardinality({e \in QueuedExecs(t) :
                                   /\ execs[e].outcome = "resolved"
                                   /\ execs[e].frame # "none"}))
    /\ [][/\ Len(successfulList') >= Len(successfulList)
          /\ SubSeq(successfulList', 1, Len(successfulList)) = successfulList]_vars

\* One signal is in successfulList through its successful queue-drained
\* child, while a queue-drained child of another signal has failed and been
\* handled and a direct child has succeeded, neither leaving a trace in it.
C16_Witness ==
    \E e1, e2, e3 \in Execs :
        /\ execs[e1].queued /\ execs[e1].outcome = "resolved"
        /\ execs[e1].frame = "kept"
        /\ successfulList = <<execs[e1].signal>>
        /\ execs[e2].queued /\ execs[e2].outcome \in Failures
        /\ execs[e2].frame = "kept"
        /\ ~execs[e3].queued /\ execs[e3].outcome = "resolved"
        /\ requests[execs[e3].req].status = "resolved"

\* C17: on a memoized instance, run() calls without a signal interleaved with
\* run(signal) calls leave the drain serialized: the queue-drained children
\* still in flight are never two, and runNext never spawns one while an
\* earlier queue-drained child is in flight.
C17_DrainStaysSerialized ==
    \A e1, e2 \in Execs :
        (/\ execs[e1].queued /\ execs[e2].queued
         /\ execs[e1].listening /\ execs[e2].listening)
            => e1 = e2

\* C18: no child is ever spawned for a signal that is already aborted at the
\* spawn: a queued item whose signal is aborted while it waits is failed
\* without a spawn when it reaches the head of the queue.
C18_NoSpawnForAbortedSignal ==
    \A e \in Execs :
        execs[e].queued => ~execs[e].bornAborted

\* C19: on a memoized instance whose run() calls all carry a signal, every
\* request that is enqueued is eventually settled, given that the queued
\* reactions run and that every child in flight ends, by its own terminal
\* event or by the abort of its signal.  A settled request stays settled, so
\* this is: again and again no request is pending.
C19_EveryRequestSettles ==
    []<>(\A r \in Reqs : requests[r].status # "pending")

\* Every call allowed has been made and queued, one of them waited in the
\* queue behind a child of another signal and was executed in its turn, and
\* all are settled.
C19_Witness ==
    /\ Len(requests) = MaxRuns
    /\ \A r \in Reqs : requests[r].path = "queued" /\ requests[r].status # "pending"
    /\ \E r \in Reqs :
          /\ ~requests[r].seen.spawned
          /\ ~requests[r].seen.joined
          /\ ExecsOf(r) # {}

\* C20: every item that has left the queue is settled exactly once, with the
\* outcome of its own child or by the success of its signal.  No item is
\* dropped: a request that is out of the queue and still pending has a child
\* of its own whose chain has not yet reached it; the queue holds items only
\* on a memoized instance, each once, pending and without a child.  No
\* request's resolve or reject is called twice.
C20_DequeuedSettledOnce ==
    /\ queue # <<>> => _memoize
    /\ \A i, j \in 1..Len(queue) : queue[i] = queue[j] => i = j
    /\ \A r \in Reqs :
          requests[r].path = "queued" =>
              /\ requests[r].settles <= 1
              /\ Cardinality(ExecsOf(r)) <= 1
              /\ IF \E i \in 1..Len(queue) : queue[i] = r
                 THEN /\ requests[r].status = "pending"
                      /\ requests[r].settles = 0
                      /\ ExecsOf(r) = {}
                 ELSE IF requests[r].status = "pending"
                 THEN \E e \in ExecsOf(r) :
                         \/ execs[e].outcome = "pending" /\ execs[e].listening
                         \/ /\ execs[e].outcome # "pending"
                            /\ \E k \in 1..Len(microtasks) :
                                  /\ microtasks[k].exec = e
                                  /\ microtasks[k].kind \in {"then", "catch"}
                 ELSE /\ requests[r].settles = 1
                      /\ \/ \E e \in ExecsOf(r) :
                               execs[e].outcome = requests[r].status
                         \/ /\ ExecsOf(r) = {}
                            /\ requests[r].status = "resolved"

\* The queue has been emptied in both ways: one item was executed and settled
\* with its child's failure, a later one was executed and resolved, and a
\* third was resolved by that success without a child; each settled once.
C20_Witness ==
    /\ queue = <<>>
    /\ \E r1, r2, r3 \in Reqs :
          /\ requests[r1].path = "queued" /\ requests[r1].status \in Failures
          /\ requests[r2].path = "queued" /\ requests[r2].status = "resolved"
          /\ requests[r3].path = "queued" /\ requests[r3].status = "resolved"
          /\ ExecsOf(r1) # {} /\ ExecsOf(r2) # {} /\ ExecsOf(r3) = {}
          /\ requests[r1].settles = 1
          /\ requests[r2].settles = 1
          /\ requests[r3].settles = 1

====
